---------------------------- MODULE Spec2Model ----------------------------
(***************************************************************************)
(* Model of Server_Side_RPC (src/Server_Side_RPC.h): the registry of       *)
(* RPC_Callback records, its subscribe / unsubscribe / resubscribe         *)
(* lifecycle and the dispatch of one inbound request                       *)
(* (Process_Json_Response).                                                *)
(*                                                                         *)
(* C strings are sequences of one-character strings.  The three client     *)
(* callbacks (subscribe, unsubscribe, send json) are the transport         *)
(* collaborator: every call made through them is recorded in `calls`,      *)
(* and the boolean each returns is an input of the operation.  `calls`,    *)
(* `logs`, `invoked`, `ret` and `op` describe the most recent operation    *)
(* only; the registry m_rpc_callbacks is the object's persistent state.    *)
(* `unsubscribed` is a history variable no operation reads.                *)
(* The build switches THINGSBOARD_ENABLE_x and the template parameter      *)
(* MaxRPC are fixed when the object is built: Init chooses them and no     *)
(* action changes them.  Init is the object after construction and         *)
(* Set_Client_Callbacks.                                                   *)
(***************************************************************************)
EXTENDS Naturals, Sequences, FiniteSets

VARIABLES
    THINGSBOARD_ENABLE_DYNAMIC, \* build switch: Vector registry, per-record budget
    THINGSBOARD_ENABLE_STL,     \* build switch: std::find_if scan or range-for scan
    THINGSBOARD_ENABLE_DEBUG,   \* build switch: additional debug log lines
    MaxRPC,                     \* template parameter (static mode only)
    m_rpc_callbacks,            \* the registry, in insertion order
    op,                         \* the most recent operation and its inputs
    ret,                        \* what it returned
    calls,                      \* the collaborator calls it made, in order
    logs,                       \* the Logger lines it printed, in order
    invoked,                    \* the RPC_Callback handlers it called, in order
    unsubscribed                \* history: RPC_Unsubscribe has run and no
                                \* RPC_Subscribe has returned true since

vars ==
    <<THINGSBOARD_ENABLE_DYNAMIC, THINGSBOARD_ENABLE_STL, THINGSBOARD_ENABLE_DEBUG,
      MaxRPC, m_rpc_callbacks, op, ret, calls, logs, invoked, unsubscribed>>

config ==
    <<THINGSBOARD_ENABLE_DYNAMIC, THINGSBOARD_ENABLE_STL, THINGSBOARD_ENABLE_DEBUG,
      MaxRPC>>

(***************************************************************************)
(* Bounds of the model.                                                    *)
(***************************************************************************)
\* Template parameter MaxSubscriptions: the capacity of the Array registry.
MaxSubscriptions ==
    2

\* Dynamic mode: the Vector registry grows without limit; the model stops
\* growing it at this size.
MaxVector ==
    2

\* Longest range handed to the batch RPC_Subscribe.
MaxBatch ==
    2

\* Method names a record is registered under ("" never matches).
Names ==
    { <<>>, <<"a">>, <<"a","b">> }

\* Method names an inbound request carries (strings: a "method" value that is
\* not a string converts to a null char const * at line 119, which the
\* model leaves out).
Methods ==
    { <<>>, <<"a">>, <<"a","b">>, <<"a","b","b">>, <<"b">> }

\* Response budgets: MaxRPC (static mode), RPC_Callback response size (dynamic mode).
Budgets ==
    {0, 1}

\* Number of key-value pairs a handler tries to write into its response buffer.
Pairs ==
    {0, 1, 2}

\* Request ids the server puts at the end of the request topic.
RequestIds ==
    {0, 42, 105}

\* What a read through a dangling size_t reference may yield.
DanglingValues ==
    {0, 1, 2}

\* What Helper::detectSize may return when the size computation fails: a size
\* that does not hold the formatted topic (room for the terminator only, or
\* for part of the topic).
FailedSizes ==
    {1, 10}

(***************************************************************************)
(* Topics and log messages (lines 9-23).                                   *)
(***************************************************************************)
RPC_SUBSCRIBE_TOPIC ==
    <<"v","1","/","d","e","v","i","c","e","s","/","m","e","/","r","p","c","/",
      "r","e","q","u","e","s","t","/","+">>

RPC_REQUEST_TOPIC ==
    <<"v","1","/","d","e","v","i","c","e","s","/","m","e","/","r","p","c","/",
      "r","e","q","u","e","s","t","/">>

RPC_SEND_RESPONSE_TOPIC ==
    <<"v","1","/","d","e","v","i","c","e","s","/","m","e","/","r","p","c","/",
      "r","e","s","p","o","n","s","e","/","%","u">>

(***************************************************************************)
(* C library and Helper functions used by the class.                       *)
(***************************************************************************)
Min(a, b) ==
    IF a <= b THEN a ELSE b

DigitChars ==
    <<"0","1","2","3","4","5","6","7","8","9">>

IsDigit(c) ==
    \E d \in 1..10 : DigitChars[d] = c

DigitValue(c) ==
    (CHOOSE d \in 1..10 : DigitChars[d] = c) - 1

\* The decimal rendering of an unsigned number, as printf's %u produces it.
RECURSIVE Decimal(_)
Decimal(n) ==
    IF n < 10 THEN <<DigitChars[n + 1]>>
    ELSE Decimal(n \div 10) \o <<DigitChars[(n % 10) + 1]>>

\* atoi: the value of the leading decimal digits of s, 0 when there are none.
RECURSIVE AtoiFrom(_, _)
AtoiFrom(s, acc) ==
    IF s = <<>> \/ ~IsDigit(Head(s)) THEN acc
    ELSE AtoiFrom(Tail(s), acc * 10 + DigitValue(Head(s)))

\* Helper::parseRequestId(base_topic, received_topic): the number that follows
\* the request prefix in the inbound topic.
parseRequestId(base_topic, received_topic) ==
    AtoiFrom(SubSeq(received_topic, Len(base_topic) + 1, Len(received_topic)), 0)

\* The output of a printf format holding "%u" conversions, n substituted.
RECURSIVE Format(_, _)
Format(fmt, n) ==
    IF fmt = <<>> THEN <<>>
    ELSE IF Len(fmt) >= 2 /\ fmt[1] = "%" /\ fmt[2] = "u"
         THEN Decimal(n) \o Format(SubSeq(fmt, 3, Len(fmt)), n)
         ELSE <<Head(fmt)>> \o Format(Tail(fmt), n)

\* Helper::detectSize(format, ...): bytes needed for the formatted string and
\* its terminating NUL.
detectSize(fmt, n) ==
    Len(Format(fmt, n)) + 1

\* snprintf(buffer, size, fmt, n): at most size - 1 characters are stored.
snprintf(size, fmt, n) ==
    SubSeq(Format(fmt, n), 1, Min(Len(Format(fmt, n)), IF size = 0 THEN 0 ELSE size - 1))

\* Helper::stringIsNullorEmpty
stringIsNullorEmpty(str) ==
    str = <<>>

\* The character of a C string at position i (1-based): its NUL terminator
\* right after its last character.
CharAt(s, i) ==
    IF i <= Len(s) THEN s[i] ELSE "NUL"

\* strncmp(s1, s2, n) == 0: no difference among the first n characters, the
\* comparison ending at the first NUL.
StrncmpEqual(s1, s2, n) ==
    \A i \in 1..Min(n, Min(Len(s1), Len(s2)) + 1) : CharAt(s1, i) = CharAt(s2, i)

(***************************************************************************)
(* Data.                                                                   *)
(***************************************************************************)
\* RPC_Callback: the method name it is registered under and, in dynamic mode
\* only, the size reserved for its response (Get_Response_Size).
Callbacks ==
    [name : Names,
     response_size : IF THINGSBOARD_ENABLE_DYNAMIC THEN Budgets ELSE {0}]

\* The ranges [first, last) the batch RPC_Subscribe is given.
RECURSIVE SeqsUpTo(_, _)
SeqsUpTo(S, n) ==
    IF n = 0 THEN { <<>> }
    ELSE LET shorter == SeqsUpTo(S, n - 1)
         IN  shorter \cup { Append(q, x) : q \in shorter, x \in S }

\* A JsonDocument of the given capacity after `pairs` key-value pairs were
\* written to it: what does not fit is dropped and marks it overflowed.
JsonBuffer(capacity, pairs) ==
    [pairs      |-> [i \in 1..Min(pairs, capacity) |-> i],
     overflowed |-> pairs > capacity]

\* JsonDocument::isNull
isNull(doc) ==
    doc.pairs = <<>>

\* Helper::Measure_Json
Measure_Json(doc) ==
    Len(doc.pairs)

NoDocument ==
    JsonBuffer(0, 0)

\* The inbound request document: the "method" and "params" keys it holds.
Requests ==
    [containsMethod : {TRUE}, method : Methods, containsParams : BOOLEAN]
    \cup [containsMethod : {FALSE}, method : { <<>> }, containsParams : BOOLEAN]

NoRequest ==
    [containsMethod |-> FALSE, method |-> <<>>, containsParams |-> FALSE]

\* Compare_Response_Topic(topic): the topic starts with the request prefix.
Compare_Response_Topic(topic) ==
    StrncmpEqual(RPC_REQUEST_TOPIC, topic, Len(RPC_REQUEST_TOPIC))

\* The inbound topics: the request prefix followed by a decimal request id;
\* they are the topics this class accepts.
Topics ==
    { topic \in { RPC_REQUEST_TOPIC \o Decimal(n) : n \in RequestIds } :
          Compare_Response_Topic(topic) }

\* What a handler does when called: how many pairs it writes into the response
\* buffer, and which registration operation, if any, it calls on the same
\* object before it returns (with the result the collaborator gives that call).
HandlerRuns ==
    [pairs : Pairs, reenter : {"none"}, ok : {TRUE}]
    \cup [pairs : Pairs, reenter : {"RPC_Subscribe", "RPC_Unsubscribe"}, ok : BOOLEAN]

\* One call through m_subscribe_topic_callback, m_unsubscribe_topic_callback
\* or m_send_json_callback, with what the collaborator returned.
Call(fn, topic, doc, size, result) ==
    [fn |-> fn, topic |-> topic, doc |-> doc, size |-> size, result |-> result]

\* One Logger line: the message, its %u argument or its %s argument.
Log(msg, arg, str) ==
    [msg |-> msg, arg |-> arg, str |-> str]

\* What an operation did: the registry it leaves, the collaborator calls and
\* log lines it made, and what it returned.
Outcome(reg, cs, ls, r) ==
    [reg |-> reg, calls |-> cs, logs |-> ls, ret |-> r]

(***************************************************************************)
(* Registration (lines 59-102, 178-188).                                   *)
(***************************************************************************)
\* Array<RPC_Callback, MaxSubscriptions>::capacity
capacity ==
    MaxSubscriptions

\* Mutant: the check forgets the records about to be added.
CapacityExceeded_IgnoresIncoming(size, incoming) ==
    ~THINGSBOARD_ENABLE_DYNAMIC /\ size > MaxSubscriptions

\* The check that guards both RPC_Subscribe overloads; compiled in static
\* mode only.
CapacityExceeded(size, incoming) ==
    ~THINGSBOARD_ENABLE_DYNAMIC /\ size + incoming > capacity

MaxSubscriptionsExceeded ==
    <<Log("MAX_SUBSCRIPTIONS_EXCEEDED", 0, <<>>)>>

\* Mutant: the topic is subscribed before the capacity check.
Subscribe_Range_SubscribesFirst(reg, range, ok) ==
    IF CapacityExceeded(Len(reg), Len(range))
    THEN Outcome(reg, <<Call("subscribe", RPC_SUBSCRIBE_TOPIC, NoDocument, 0, ok)>>,
                 MaxSubscriptionsExceeded, FALSE)
    ELSE Outcome(reg \o range,
                 <<Call("subscribe", RPC_SUBSCRIBE_TOPIC, NoDocument, 0, ok)>>,
                 <<>>, TRUE)

\* Mutant: the batch is inserted at the front of the registry.
Subscribe_Range_Prepends(reg, range, ok) ==
    IF CapacityExceeded(Len(reg), Len(range))
    THEN Outcome(reg, <<>>, MaxSubscriptionsExceeded, FALSE)
    ELSE Outcome(range \o reg,
                 <<Call("subscribe", RPC_SUBSCRIBE_TOPIC, NoDocument, 0, ok)>>,
                 <<>>, TRUE)

\* RPC_Subscribe(first, last)
Subscribe_Range(reg, range, ok) ==
    IF CapacityExceeded(Len(reg), Len(range))
    THEN Outcome(reg, <<>>, MaxSubscriptionsExceeded, FALSE)
    ELSE Outcome(reg \o range,
                 <<Call("subscribe", RPC_SUBSCRIBE_TOPIC, NoDocument, 0, ok)>>,
                 <<>>, TRUE)

\* Mutant: the record is stored only when the topic could be subscribed.
Subscribe_One_RequiresConnection(reg, callback, ok) ==
    IF CapacityExceeded(Len(reg), 1)
    THEN Outcome(reg, <<>>, MaxSubscriptionsExceeded, FALSE)
    ELSE Outcome(IF ok THEN Append(reg, callback) ELSE reg,
                 <<Call("subscribe", RPC_SUBSCRIBE_TOPIC, NoDocument, 0, ok)>>,
                 <<>>, TRUE)

\* RPC_Subscribe(callback)
Subscribe_One(reg, callback, ok) ==
    IF CapacityExceeded(Len(reg), 1)
    THEN Outcome(reg, <<>>, MaxSubscriptionsExceeded, FALSE)
    ELSE Outcome(Append(reg, callback),
                 <<Call("subscribe", RPC_SUBSCRIBE_TOPIC, NoDocument, 0, ok)>>,
                 <<>>, TRUE)

\* Mutant: the collaborator's answer is dropped, as RPC_Subscribe drops it.
Unsubscribe_All_IgnoresResult(reg, ok) ==
    Outcome(<<>>,
            <<Call("unsubscribe", RPC_SUBSCRIBE_TOPIC, NoDocument, 0, ok)>>,
            <<>>, TRUE)

\* Mutant: the registry is cleared only when the collaborator accepted the
\* unsubscription.
Unsubscribe_All_KeepsWhenRefused(reg, ok) ==
    Outcome(IF ok THEN <<>> ELSE reg,
            <<Call("unsubscribe", RPC_SUBSCRIBE_TOPIC, NoDocument, 0, ok)>>,
            <<>>, ok)

\* RPC_Unsubscribe
Unsubscribe_All(reg, ok) ==
    Outcome(<<>>,
            <<Call("unsubscribe", RPC_SUBSCRIBE_TOPIC, NoDocument, 0, ok)>>,
            <<>>, ok)

\* Mutant: the result of the subscribe call is dropped, as RPC_Subscribe
\* drops it.
Resubscribe_IgnoresResult(reg, ok) ==
    IF reg # <<>>
    THEN Outcome(reg,
                 <<Call("subscribe", RPC_SUBSCRIBE_TOPIC, NoDocument, 0, ok)>>,
                 <<>>, TRUE)
    ELSE Outcome(reg, <<>>, <<>>, TRUE)

\* Mutant: the test for an empty registry left out.
Resubscribe_Unconditional(reg, ok) ==
    IF ~ok
    THEN Outcome(reg,
                 <<Call("subscribe", RPC_SUBSCRIBE_TOPIC, NoDocument, 0, ok)>>,
                 <<Log("SUBSCRIBE_TOPIC_FAILED", 0, RPC_SUBSCRIBE_TOPIC)>>, FALSE)
    ELSE Outcome(reg,
                 <<Call("subscribe", RPC_SUBSCRIBE_TOPIC, NoDocument, 0, ok)>>,
                 <<>>, TRUE)

\* Resubscribe_Topic: the subscribe call is made only when the registry is
\* not empty (short-circuit &&).
Resubscribe(reg, ok) ==
    IF reg # <<>>
    THEN IF ~ok
         THEN Outcome(reg,
                      <<Call("subscribe", RPC_SUBSCRIBE_TOPIC, NoDocument, 0, ok)>>,
                      <<Log("SUBSCRIBE_TOPIC_FAILED", 0, RPC_SUBSCRIBE_TOPIC)>>, FALSE)
         ELSE Outcome(reg,
                      <<Call("subscribe", RPC_SUBSCRIBE_TOPIC, NoDocument, 0, ok)>>,
                      <<>>, TRUE)
    ELSE Outcome(reg, <<>>, <<>>, TRUE)

(***************************************************************************)
(* Dispatch of one inbound request (lines 112-172).                        *)
(***************************************************************************)
\* Mutant: the test for an empty registered name left out.
MatchesName_EmptyAllowed(subscribedMethodName, method_name) ==
    StrncmpEqual(subscribedMethodName, method_name, Len(subscribedMethodName))

\* The predicate of the std::find_if scan (line 124).
MatchesName(subscribedMethodName, method_name) ==
    /\ ~stringIsNullorEmpty(subscribedMethodName)
    /\ StrncmpEqual(subscribedMethodName, method_name, Len(subscribedMethodName))

\* Mutant: the comparison runs over the shorter of the two names.
SkipsName_ShorterLength(subscribedMethodName, method_name) ==
    \/ stringIsNullorEmpty(subscribedMethodName)
    \/ ~StrncmpEqual(subscribedMethodName, method_name,
                     Min(Len(subscribedMethodName), Len(method_name)))

\* The condition under which the range-for scan skips a record (line 131).
SkipsName(subscribedMethodName, method_name) ==
    \/ stringIsNullorEmpty(subscribedMethodName)
    \/ ~StrncmpEqual(subscribedMethodName, method_name, Len(subscribedMethodName))

\* std::find_if from position i: the first record the predicate accepts, or
\* end(), which is Len(reg) + 1.
RECURSIVE find_if(_, _, _)
find_if(reg, i, method_name) ==
    IF i > Len(reg) THEN i
    ELSE IF MatchesName(reg[i].name, method_name) THEN i
    ELSE find_if(reg, i + 1, method_name)

\* The range-for scan from position i: the first record that is not skipped;
\* every path through the loop body after the skip returns, so no later
\* record is looked at.  Len(reg) + 1 when the loop runs to its end.
RECURSIVE for_range(_, _, _)
for_range(reg, i, method_name) ==
    IF i > Len(reg) THEN i
    ELSE IF SkipsName(reg[i].name, method_name) THEN for_range(reg, i + 1, method_name)
    ELSE i

\* Mutant: the scan keeps the last record that matches instead of the first.
MatchedIndex_LastMatch(reg, method_name) ==
    LET matching == { i \in 1..Len(reg) : MatchesName(reg[i].name, method_name) }
    IN  IF matching = {} THEN Len(reg) + 1
        ELSE CHOOSE i \in matching : \A j \in matching : j <= i

\* The record the request is dispatched to, under either build.
MatchedIndex(reg, method_name) ==
    IF THINGSBOARD_ENABLE_STL
    THEN find_if(reg, 1, method_name)
    ELSE for_range(reg, 1, method_name)

\* The capacity of json_buffer (lines 146-152): the record's response size in
\* dynamic mode, MaxRPC in static mode.
ResponseSize(rpc) ==
    IF THINGSBOARD_ENABLE_DYNAMIC THEN rpc.response_size ELSE MaxRPC

\* What the handler's own call of RPC_Subscribe or RPC_Unsubscribe does to the
\* object while rpc.Call_Callback (line 153) is running.  A handler that
\* subscribes registers a copy of its own record.
Reenter(reg, rpc, h) ==
    IF h.reenter = "RPC_Subscribe" THEN Subscribe_One(reg, rpc, h.ok)
    ELSE IF h.reenter = "RPC_Unsubscribe" THEN Unsubscribe_All(reg, h.ok)
    ELSE Outcome(reg, <<>>, <<>>, TRUE)

\* The value read from rpc_response_size for the overflow log (line 162).  In
\* static mode it is the constant MaxRPC.  In dynamic mode it is a reference
\* into the matched element of the Vector (lines 127, 147): once the handler
\* has cleared the Vector or appended to it, the element is destroyed or
\* moved and the read yields an indeterminate value.
LoggedResponseSize(rpc, h, stale) ==
    IF ~THINGSBOARD_ENABLE_DYNAMIC THEN MaxRPC
    ELSE IF h.reenter = "none" THEN rpc.response_size
    ELSE stale

\* The debug lines printed between the match and the handler call (lines 135-143).
MatchDebugLogs(data) ==
    IF THINGSBOARD_ENABLE_DEBUG
    THEN (IF ~data.containsParams THEN <<Log("NO_RPC_PARAMS_PASSED", 0, <<>>)>> ELSE <<>>)
         \o <<Log("CALLING_RPC_CB", 0, data.method)>>
    ELSE <<>>

\* What a dispatch did: as Outcome, with the handler calls in place of the
\* return value (the function returns void).
Dispatched(reg, cs, ls, hs) ==
    [reg |-> reg, calls |-> cs, logs |-> ls, invoked |-> hs]

\* Mutant: the buffer sized without room for the terminating NUL.
ResponseTopic_NoTerminator(topic, size) ==
    LET request_id == parseRequestId(RPC_REQUEST_TOPIC, topic)
    IN  snprintf(IF size = 0 THEN 0 ELSE size - 1, RPC_SEND_RESPONSE_TOPIC, request_id)

\* What Helper::detectSize returns at line 167 when the computation succeeds.
DetectedSize(topic) ==
    detectSize(RPC_SEND_RESPONSE_TOPIC, parseRequestId(RPC_REQUEST_TOPIC, topic))

\* The response topic of lines 166-168: the request id formatted into
\* responseTopic, an array of `size` chars, `size` being what
\* Helper::detectSize returned.  The code uses the value as it comes.
ResponseTopic(topic, size) ==
    LET request_id == parseRequestId(RPC_REQUEST_TOPIC, topic)
    IN  snprintf(size, RPC_SEND_RESPONSE_TOPIC, request_id)

\* Mutant: the overflow check made before the empty check.
ResponseVerdict_OverflowFirst(json_buffer) ==
    IF json_buffer.overflowed THEN "overflowed"
    ELSE IF isNull(json_buffer) THEN "null"
    ELSE "send"

\* The checks made on json_buffer after the handler has returned, in the
\* order of lines 155-164.
ResponseVerdict(json_buffer) ==
    IF isNull(json_buffer) THEN "null"
    ELSE IF json_buffer.overflowed THEN "overflowed"
    ELSE "send"

\* Lines 153-170: the handler call and what follows it, for the matched
\* record at position it.
Respond(reg, it, topic, data, h, publish_ok, stale, size) ==
    LET rpc         == reg[it]
        json_buffer == JsonBuffer(ResponseSize(rpc), h.pairs)
        nested      == Reenter(reg, rpc, h)
        handler     == <<[index |-> it, rpc |-> rpc, param_null |-> ~data.containsParams,
                          json_buffer |-> json_buffer, reenter |-> h.reenter]>>
        before      == MatchDebugLogs(data) \o nested.logs
        verdict     == ResponseVerdict(json_buffer)
    IN  IF verdict = "null"
        THEN Dispatched(nested.reg, nested.calls,
                        before \o (IF THINGSBOARD_ENABLE_DEBUG
                                   THEN <<Log("RPC_RESPONSE_NULL", 0, <<>>)>> ELSE <<>>),
                        handler)
        ELSE IF verdict = "overflowed"
        THEN Dispatched(nested.reg, nested.calls,
                        before \o <<Log("RPC_RESPONSE_OVERFLOWED",
                                        LoggedResponseSize(rpc, h, stale), <<>>)>>,
                        handler)
        ELSE Dispatched(nested.reg,
                        nested.calls
                        \o <<Call("send_json", ResponseTopic(topic, size), json_buffer,
                                  Measure_Json(json_buffer), publish_ok)>>,
                        before, handler)

\* Mutant: a request without a method name clears the registry.
Dispatch_ForgetsOnMalformed(reg, topic, data, h, publish_ok, stale, size) ==
    IF ~data.containsMethod
    THEN Dispatched(<<>>, <<>>,
                    IF THINGSBOARD_ENABLE_DEBUG
                    THEN <<Log("SERVER_RPC_METHOD_NULL", 0, <<>>)>> ELSE <<>>,
                    <<>>)
    ELSE LET it == MatchedIndex(reg, data.method)
         IN  IF it > Len(reg)
             THEN Dispatched(reg, <<>>, <<>>, <<>>)
             ELSE Respond(reg, it, topic, data, h, publish_ok, stale, size)

\* Mutant: a request without parameters is dropped before the handler call.
Dispatch_RequiresParams(reg, topic, data, h, publish_ok, stale, size) ==
    IF ~data.containsMethod
    THEN Dispatched(reg, <<>>,
                    IF THINGSBOARD_ENABLE_DEBUG
                    THEN <<Log("SERVER_RPC_METHOD_NULL", 0, <<>>)>> ELSE <<>>,
                    <<>>)
    ELSE LET it == MatchedIndex(reg, data.method)
         IN  IF it > Len(reg) \/ ~data.containsParams
             THEN Dispatched(reg, <<>>, <<>>, <<>>)
             ELSE Respond(reg, it, topic, data, h, publish_ok, stale, size)

\* Process_Json_Response(topic, data)
Dispatch(reg, topic, data, h, publish_ok, stale, size) ==
    IF ~data.containsMethod
    THEN Dispatched(reg, <<>>,
                    IF THINGSBOARD_ENABLE_DEBUG
                    THEN <<Log("SERVER_RPC_METHOD_NULL", 0, <<>>)>> ELSE <<>>,
                    <<>>)
    ELSE LET it == MatchedIndex(reg, data.method)
         IN  IF it > Len(reg)
             THEN Dispatched(reg, <<>>, <<>>, <<>>)
             ELSE Respond(reg, it, topic, data, h, publish_ok, stale, size)

(***************************************************************************)
(* The state machine.  The class has a single thread of control (no        *)
(* locking, no background work): an operation is called when no other is   *)
(* running, and `op` names the operation that has run until control is     *)
(* back with the caller (Return).                                          *)
(***************************************************************************)
Operation(name, range, topic, data) ==
    [name |-> name, range |-> range, topic |-> topic, data |-> data]

NoOperation ==
    Operation("none", <<>>, <<>>, NoRequest)

Init ==
    /\ THINGSBOARD_ENABLE_DYNAMIC \in BOOLEAN
    /\ THINGSBOARD_ENABLE_STL \in BOOLEAN
    /\ THINGSBOARD_ENABLE_DEBUG \in BOOLEAN
    /\ MaxRPC \in (IF THINGSBOARD_ENABLE_DYNAMIC THEN {0} ELSE Budgets)
    /\ m_rpc_callbacks = <<>>
    /\ op = NoOperation
    /\ ret = TRUE
    /\ calls = <<>>
    /\ logs = <<>>
    /\ invoked = <<>>
    /\ unsubscribed = FALSE

\* The history variable after operation o has returned r, made the calls cs
\* and called the handlers hs: set by RPC_Unsubscribe (also when called by a
\* handler), reset by an RPC_Subscribe that returned true (also when called
\* by a handler: it made its subscribe call), kept otherwise.
Unsubscribed(o, r, cs, hs, before) ==
    IF o.name \in {"RPC_Unsubscribe", "Unsubscribe"} THEN TRUE
    ELSE IF o.name \in {"RPC_Subscribe", "RPC_Subscribe_Range"} THEN (before /\ ~r)
    ELSE IF hs # <<>> /\ hs[1].reenter = "RPC_Unsubscribe" THEN TRUE
    ELSE IF /\ hs # <<>> /\ hs[1].reenter = "RPC_Subscribe"
            /\ \E i \in 1..Len(cs) : cs[i].fn = "subscribe"
         THEN FALSE
    ELSE before

\* The effect of a registration operation on the state.
Apply(o, outcome) ==
    /\ m_rpc_callbacks' = outcome.reg
    /\ op' = o
    /\ ret' = outcome.ret
    /\ calls' = outcome.calls
    /\ logs' = outcome.logs
    /\ invoked' = <<>>
    /\ unsubscribed' = Unsubscribed(o, outcome.ret, outcome.calls, <<>>, unsubscribed)
    /\ UNCHANGED config

\* bool RPC_Subscribe(InputIterator const & first, InputIterator const & last)
RPC_Subscribe_Range ==
    /\ op = NoOperation
    /\ \E range \in SeqsUpTo(Callbacks, MaxBatch) :
        /\ THINGSBOARD_ENABLE_DYNAMIC => Len(m_rpc_callbacks) + Len(range) <= MaxVector
        /\ \E ok \in (IF CapacityExceeded(Len(m_rpc_callbacks), Len(range))
                      THEN {TRUE} ELSE BOOLEAN) :
            Apply(Operation("RPC_Subscribe_Range", range, <<>>, NoRequest),
                  Subscribe_Range(m_rpc_callbacks, range, ok))

\* bool RPC_Subscribe(RPC_Callback const & callback)
RPC_Subscribe ==
    /\ op = NoOperation
    /\ THINGSBOARD_ENABLE_DYNAMIC => Len(m_rpc_callbacks) + 1 <= MaxVector
    /\ \E callback \in Callbacks :
        \E ok \in (IF CapacityExceeded(Len(m_rpc_callbacks), 1)
                   THEN {TRUE} ELSE BOOLEAN) :
            Apply(Operation("RPC_Subscribe", <<callback>>, <<>>, NoRequest),
                  Subscribe_One(m_rpc_callbacks, callback, ok))

\* bool RPC_Unsubscribe()
RPC_Unsubscribe ==
    /\ op = NoOperation
    /\ \E ok \in BOOLEAN :
        Apply(Operation("RPC_Unsubscribe", <<>>, <<>>, NoRequest),
              Unsubscribe_All(m_rpc_callbacks, ok))

\* bool Unsubscribe() override: returns RPC_Unsubscribe()
Unsubscribe ==
    /\ op = NoOperation
    /\ \E ok \in BOOLEAN :
        Apply(Operation("Unsubscribe", <<>>, <<>>, NoRequest),
              Unsubscribe_All(m_rpc_callbacks, ok))

\* bool Resubscribe_Topic() override
Resubscribe_Topic ==
    /\ op = NoOperation
    /\ \E ok \in (IF m_rpc_callbacks = <<>> THEN {TRUE} ELSE BOOLEAN) :
        Apply(Operation("Resubscribe_Topic", <<>>, <<>>, NoRequest),
              Resubscribe(m_rpc_callbacks, ok))

\* The inputs a dispatch of `data` can depend on: what the matched handler
\* does, what the collaborator answers to the publish call (when one is
\* made), and what the read of rpc_response_size yields when it is logged
\* after the handler changed the Vector, and what Helper::detectSize returns
\* when the response topic is built: its result for the topic, or, when the
\* computation is taken to fail, one of FailedSizes.  One combination when no
\* handler is called; none with a failing computation when line 167 is not
\* reached.
DispatchInputs(reg, topic, data, size_fails) ==
    IF data.containsMethod /\ MatchedIndex(reg, data.method) <= Len(reg)
    THEN LET rpc        == reg[MatchedIndex(reg, data.method)]
             verdict(h) == ResponseVerdict(JsonBuffer(ResponseSize(rpc), h.pairs))
             runs       == { h \in HandlerRuns :
                               (THINGSBOARD_ENABLE_DYNAMIC /\ h.reenter = "RPC_Subscribe")
                                   => Len(reg) + 1 <= MaxVector }
         IN  UNION { { <<h, publish_ok, stale, size>> :
                           publish_ok \in (IF verdict(h) = "send" THEN BOOLEAN ELSE {TRUE}),
                           stale \in (IF /\ verdict(h) = "overflowed"
                                         /\ THINGSBOARD_ENABLE_DYNAMIC
                                         /\ h.reenter # "none"
                                      THEN DanglingValues ELSE {0}),
                           size \in (IF ~size_fails THEN {DetectedSize(topic)}
                                     ELSE IF verdict(h) = "send" THEN FailedSizes
                                     ELSE {}) } :
                     h \in runs }
    ELSE IF size_fails THEN {}
    ELSE { <<[pairs |-> 0, reenter |-> "none", ok |-> TRUE], TRUE, 0, DetectedSize(topic)>> }

\* The effect of one call of Process_Json_Response on the state, for the
\* inputs `in`.
Dispatching(topic, data, in) ==
    LET d == Dispatch(m_rpc_callbacks, topic, data, in[1], in[2], in[3], in[4])
        o == Operation("Process_Json_Response", <<>>, topic, data)
    IN  /\ m_rpc_callbacks' = d.reg
        /\ op' = o
        /\ ret' = TRUE
        /\ calls' = d.calls
        /\ logs' = d.logs
        /\ invoked' = d.invoked
        /\ unsubscribed' = Unsubscribed(o, TRUE, d.calls, d.invoked, unsubscribed)
        /\ UNCHANGED config

\* void Process_Json_Response(char const * topic, JsonDocument const & data)
Process_Json_Response ==
    /\ op = NoOperation
    /\ \E topic \in Topics, data \in Requests :
        \E in \in DispatchInputs(m_rpc_callbacks, topic, data, FALSE) :
            Dispatching(topic, data, in)

\* The same call, when the size computation of line 167 fails.
Process_Json_Response_SizeFailure ==
    /\ op = NoOperation
    /\ \E topic \in Topics, data \in Requests :
        \E in \in DispatchInputs(m_rpc_callbacks, topic, data, TRUE) :
            Dispatching(topic, data, in)

\* Control is back with the caller: the next operation may be called.
Return ==
    /\ op # NoOperation
    /\ op' = NoOperation
    /\ ret' = TRUE
    /\ calls' = <<>>
    /\ logs' = <<>>
    /\ invoked' = <<>>
    /\ UNCHANGED <<config, m_rpc_callbacks, unsubscribed>>

Next ==
    \/ RPC_Subscribe_Range
    \/ RPC_Subscribe
    \/ RPC_Unsubscribe
    \/ Unsubscribe
    \/ Resubscribe_Topic
    \/ Process_Json_Response
    \/ Return

Spec ==
    Init /\ [][Next]_vars

\* The class with a Helper::detectSize that may fail.
NextSizeFailure ==
    \/ Next
    \/ Process_Json_Response_SizeFailure

SpecSizeFailure ==
    Init /\ [][NextSizeFailure]_vars

(***************************************************************************)
(* Properties.                                                             *)
(***************************************************************************)
\* n is a prefix of m.
IsPrefixOf(n, m) ==
    Len(n) <= Len(m) /\ \A i \in 1..Len(n) : n[i] = m[i]

\* The positions of the records of reg a request for `method` may go to:
\* those with a non-empty name that is a prefix of it.
Candidates(reg, method) ==
    { i \in 1..Len(reg) : reg[i].name # <<>> /\ IsPrefixOf(reg[i].name, method) }

\* The collaborator calls of one kind among cs.
CallsOf(cs, fn) ==
    SelectSeq(cs, LAMBDA c : c.fn = fn)

\* The log lines with one message among ls.
LogsOf(ls, msg) ==
    SelectSeq(ls, LAMBDA l : l.msg = msg)

\* The one call an operation makes for the wildcard request topic.
WildcardCall(fn, result) ==
    [fn |-> fn,
     topic |-> <<"v","1","/","d","e","v","i","c","e","s","/","m","e","/","r","p","c","/",
                 "r","e","q","u","e","s","t","/","+">>,
     doc |-> NoDocument, size |-> 0, result |-> result]

\* C1: a request that carries a method name makes Process_Json_Response call
\* exactly one handler, that of the earliest record (in insertion order) whose
\* name is non-empty and a prefix of the method name, and no handler when
\* there is no such record.
C1_FirstMatchInvoked ==
    [][(op'.name = "Process_Json_Response" /\ op'.data.containsMethod) =>
          LET cand == Candidates(m_rpc_callbacks, op'.data.method)
          IN  IF cand = {} THEN invoked' = <<>>
              ELSE /\ Len(invoked') = 1
                   /\ invoked'[1].index \in cand
                   /\ \A j \in cand : invoked'[1].index <= j
                   /\ invoked'[1].rpc = m_rpc_callbacks[invoked'[1].index]]_vars

\* C1 witness: with records "ab", "a" registered in that order, a request for
\* "abb" has called the handler of the first record ("ab") and only that one.
C1_Witness ==
    /\ op.name = "Process_Json_Response"
    /\ op.data.method = <<"a","b","b">>
    /\ Len(invoked) = 1
    /\ invoked[1].index = 1
    /\ invoked[1].reenter = "none"
    /\ Len(m_rpc_callbacks) = 2
    /\ m_rpc_callbacks[1].name = <<"a","b">>
    /\ m_rpc_callbacks[2].name = <<"a">>

\* C2: in static (bounded) mode the registry never holds more records than
\* its capacity MaxSubscriptions, whatever operations have run.
C2_SizeWithinCapacity ==
    ~THINGSBOARD_ENABLE_DYNAMIC => Len(m_rpc_callbacks) <= MaxSubscriptions

\* C2 witness: a full static registry has just refused one more record.
C2_Witness ==
    /\ ~THINGSBOARD_ENABLE_DYNAMIC
    /\ op.name = "RPC_Subscribe"
    /\ ret = FALSE
    /\ Len(m_rpc_callbacks) = MaxSubscriptions

\* C3: in static mode an RPC_Subscribe (single or batch) whose records do not
\* all fit returns false, leaves the registry as it was and makes no
\* collaborator call.
C3_RejectedSubscribeHasNoEffect ==
    [][(/\ op'.name \in {"RPC_Subscribe", "RPC_Subscribe_Range"}
        /\ ~THINGSBOARD_ENABLE_DYNAMIC
        /\ Len(m_rpc_callbacks) + Len(op'.range) > MaxSubscriptions)
       => (/\ ret' = FALSE
           /\ m_rpc_callbacks' = m_rpc_callbacks
           /\ calls' = <<>>)]_vars

\* C3 witness: a batch of two was refused by a registry holding one record,
\* although one record of the batch would have fit.
C3_Witness ==
    /\ ~THINGSBOARD_ENABLE_DYNAMIC
    /\ op.name = "RPC_Subscribe_Range"
    /\ Len(op.range) = 2
    /\ Len(m_rpc_callbacks) = MaxSubscriptions - 1
    /\ ret = FALSE
    /\ calls = <<>>

\* The digits that follow the request prefix in an inbound topic.
RequestIdDigits(topic) ==
    SubSeq(topic, 27, Len(topic))

\* C4: when the matched handler leaves a non-empty buffer that did not
\* overflow, exactly one publish call is made; its topic is
\* "v1/devices/me/rpc/response/" followed by the request id digits of the
\* inbound topic, and its document is the buffer the handler filled.
C4_ResponsePublished ==
    (/\ op.name = "Process_Json_Response"
     /\ Len(invoked) = 1
     /\ invoked[1].json_buffer.pairs # <<>>
     /\ ~invoked[1].json_buffer.overflowed)
    => LET sent == CallsOf(calls, "send_json")
       IN  /\ Len(sent) = 1
           /\ sent[1].topic =
                  <<"v","1","/","d","e","v","i","c","e","s","/","m","e","/","r","p","c","/",
                    "r","e","s","p","o","n","s","e","/">> \o RequestIdDigits(op.topic)
           /\ sent[1].doc = invoked[1].json_buffer

\* C4 witness: a request on ".../rpc/request/42" was answered on
\* ".../rpc/response/42".
C4_Witness ==
    /\ op.name = "Process_Json_Response"
    /\ RequestIdDigits(op.topic) = <<"4","2">>
    /\ Len(invoked) = 1
    /\ Len(CallsOf(calls, "send_json")) = 1
    /\ CallsOf(calls, "send_json")[1].topic =
           <<"v","1","/","d","e","v","i","c","e","s","/","m","e","/","r","p","c","/",
             "r","e","s","p","o","n","s","e","/","4","2">>
    /\ CallsOf(calls, "send_json")[1].doc.pairs # <<>>

\* C5: when the matched handler overflows its response buffer and the buffer
\* is not empty, no publish call is made and exactly one overflow line is
\* logged, carrying MaxRPC in static mode and the response size of the matched
\* record in dynamic mode.
C5_OverflowLogsBudget ==
    (/\ op.name = "Process_Json_Response"
     /\ Len(invoked) = 1
     /\ invoked[1].json_buffer.overflowed
     /\ invoked[1].json_buffer.pairs # <<>>)
    => /\ CallsOf(calls, "send_json") = <<>>
       /\ Len(LogsOf(logs, "RPC_RESPONSE_OVERFLOWED")) = 1
       /\ LogsOf(logs, "RPC_RESPONSE_OVERFLOWED")[1].arg =
              (IF THINGSBOARD_ENABLE_DYNAMIC
               THEN invoked[1].rpc.response_size ELSE MaxRPC)

\* The debug lines of Process_Json_Response.
DebugMessages ==
    {"NO_RPC_PARAMS_PASSED", "CALLING_RPC_CB", "RPC_RESPONSE_NULL"}

\* C6: when the matched handler leaves its buffer empty, no publish call is
\* made and the dispatch logs no error: no overflow line even when the empty
\* buffer is also flagged overflowed, and nothing but debug lines (none at
\* all in a build without debug output), leaving aside the line a refused
\* RPC_Subscribe called by the handler itself prints.
C6_EmptyResponseDropped ==
    (/\ op.name = "Process_Json_Response"
     /\ Len(invoked) = 1
     /\ invoked[1].json_buffer.pairs = <<>>)
    => /\ CallsOf(calls, "send_json") = <<>>
       /\ LogsOf(logs, "RPC_RESPONSE_OVERFLOWED") = <<>>
       /\ \A i \in 1..Len(logs) :
              \/ logs[i].msg \in DebugMessages
              \/ /\ logs[i].msg = "MAX_SUBSCRIPTIONS_EXCEEDED"
                 /\ invoked[1].reenter = "RPC_Subscribe"
       /\ (~THINGSBOARD_ENABLE_DEBUG /\ invoked[1].reenter # "RPC_Subscribe")
              => logs = <<>>

\* C6 witness: a handler called with a buffer of capacity 0 tried to write to
\* it, leaving it empty and flagged overflowed.
C6_Witness ==
    /\ op.name = "Process_Json_Response"
    /\ Len(invoked) = 1
    /\ invoked[1].json_buffer.pairs = <<>>
    /\ invoked[1].json_buffer.overflowed
    /\ invoked[1].reenter = "none"
    /\ calls = <<>>

\* C7: a request without a method name, or whose method name no record
\* matches, calls no handler, makes no collaborator call and leaves the
\* registry as it was.
C7_UnmatchedRequestDropped ==
    [][(/\ op'.name = "Process_Json_Response"
        /\ \/ ~op'.data.containsMethod
           \/ Candidates(m_rpc_callbacks, op'.data.method) = {})
       => (/\ invoked' = <<>>
           /\ calls' = <<>>
           /\ m_rpc_callbacks' = m_rpc_callbacks)]_vars

\* C7 witness: a request for "b" reached a registry that holds a record with
\* an empty name and a record named "a"; nothing was called.
C7_Witness ==
    /\ op.name = "Process_Json_Response"
    /\ op.data.containsMethod
    /\ op.data.method = <<"b">>
    /\ Len(m_rpc_callbacks) = 2
    /\ m_rpc_callbacks[1].name = <<>>
    /\ m_rpc_callbacks[2].name = <<"a">>
    /\ invoked = <<>>
    /\ calls = <<>>

\* C8: from every state, whether the registry is empty or not and whatever
\* the collaborator answers, a step of RPC_Unsubscribe or Unsubscribe leaves
\* the registry empty, makes exactly one collaborator call, the
\* unsubscription from the wildcard request topic, and returns what that
\* call returned.
C8_UnsubscribeStep ==
    [][op'.name \in {"RPC_Unsubscribe", "Unsubscribe"}
       => /\ m_rpc_callbacks' = <<>>
          /\ Len(calls') = 1
          /\ calls'[1] = WildcardCall("unsubscribe", ret')]_vars

\* C8 witness: the collaborator refused the unsubscription; the registry is
\* empty all the same and the call returned false.
C8_Witness ==
    /\ op.name = "Unsubscribe"
    /\ ret = FALSE
    /\ m_rpc_callbacks = <<>>
    /\ Len(calls) = 1

\* C9: Resubscribe_Topic leaves the registry unchanged; with a non-empty
\* registry it makes exactly one subscribe call for the wildcard request
\* topic and returns false exactly when that call fails; with an empty
\* registry it makes no call and returns true.
C9_ResubscribeWhenNonEmpty ==
    [][op'.name = "Resubscribe_Topic"
       => /\ m_rpc_callbacks' = m_rpc_callbacks
          /\ IF m_rpc_callbacks # <<>>
             THEN \E result \in BOOLEAN :
                      /\ calls' = <<WildcardCall("subscribe", result)>>
                      /\ ret' = result
             ELSE calls' = <<>> /\ ret' = TRUE]_vars

\* C9 witness: the subscribe call of a resubscription failed and
\* Resubscribe_Topic returned false after that single call.
C9_Witness ==
    /\ op.name = "Resubscribe_Topic"
    /\ m_rpc_callbacks # <<>>
    /\ Len(calls) = 1
    /\ ~calls[1].result
    /\ ret = FALSE

\* C10: RPC_Subscribe (single or batch) makes one subscribe call for the
\* wildcard request topic when it adds at least one record and none when it
\* adds no record (a rejected call, a batch with an empty range).
C10_SubscribeCallIffRecordAdded ==
    [][op'.name \in {"RPC_Subscribe", "RPC_Subscribe_Range"}
       => IF Len(m_rpc_callbacks') > Len(m_rpc_callbacks)
          THEN \E result \in BOOLEAN : calls' = <<WildcardCall("subscribe", result)>>
          ELSE calls' = <<>>]_vars

\* A collaborator call of the most recent operation returned false.
SubscriptionCallFailed ==
    \E i \in 1..Len(calls) :
        calls[i].fn \in {"subscribe", "unsubscribe"} /\ ~calls[i].result

\* C11 as stated: whenever the subscribe or unsubscribe call made by
\* RPC_Subscribe (single or batch), Resubscribe_Topic or RPC_Unsubscribe
\* returns false, the operation returns false.
C11_EveryFailureSurfaced ==
    (/\ op.name \in {"RPC_Subscribe", "RPC_Subscribe_Range", "Resubscribe_Topic",
                     "RPC_Unsubscribe", "Unsubscribe"}
     /\ SubscriptionCallFailed)
    => ret = FALSE

\* C11 as amended: Resubscribe_Topic, RPC_Unsubscribe and Unsubscribe return
\* false whenever their collaborator call returns false; RPC_Subscribe
\* (single or batch) discards the result of its subscribe call and returns
\* true whenever it made the call, that is whenever the records fit.
C11_FailureSurfacedExceptBySubscribe ==
    /\ (/\ op.name \in {"Resubscribe_Topic", "RPC_Unsubscribe", "Unsubscribe"}
        /\ SubscriptionCallFailed)
       => ret = FALSE
    /\ (/\ op.name \in {"RPC_Subscribe", "RPC_Subscribe_Range"}
        /\ calls # <<>>)
       => ret = TRUE

\* C11 witness: the collaborator refused the unsubscription requested by
\* RPC_Unsubscribe, which returned false.
C11_Witness ==
    /\ op.name = "RPC_Unsubscribe"
    /\ SubscriptionCallFailed
    /\ ret = FALSE

\* The registry RPC_Subscribe leaves when asked to add `range` to reg: a
\* function of the registry, the records and the build alone.
RegistryAfterSubscribe(reg, range) ==
    IF ~THINGSBOARD_ENABLE_DYNAMIC /\ Len(reg) + Len(range) > MaxSubscriptions
    THEN reg
    ELSE reg \o range

\* C12: registration does not depend on the connection.  The registry that
\* RPC_Subscribe (single or batch) leaves is the same whether the subscribe
\* call succeeds or fails; a Resubscribe_Topic that finds records registered
\* issues the subscribe call for the request topic and returns its answer;
\* and a request whose method is the non-empty name of a registered record
\* gets one handler called, whatever the subscribe calls answered before.
C12_RegistrationIndependentOfConnection ==
    [][/\ op'.name \in {"RPC_Subscribe", "RPC_Subscribe_Range"} =>
            m_rpc_callbacks' = RegistryAfterSubscribe(m_rpc_callbacks, op'.range)
       /\ (op'.name = "Resubscribe_Topic" /\ m_rpc_callbacks # <<>>) =>
            /\ \E result \in BOOLEAN :
                   /\ calls' = <<WildcardCall("subscribe", result)>>
                   /\ ret' = result
            /\ m_rpc_callbacks' = m_rpc_callbacks
       /\ (/\ op'.name = "Process_Json_Response"
           /\ op'.data.containsMethod
           /\ op'.data.method # <<>>
           /\ \E i \in 1..Len(m_rpc_callbacks) :
                  m_rpc_callbacks[i].name = op'.data.method) =>
            /\ Len(invoked') = 1
            /\ IsPrefixOf(invoked'[1].rpc.name, op'.data.method)]_vars

\* C12 witness: a record was registered while the collaborator refused the
\* subscribe call (no connection); RPC_Subscribe returned true and the record
\* is the last of the registry.
C12_Witness ==
    /\ op.name = "RPC_Subscribe"
    /\ calls # <<>>
    /\ ~calls[1].result
    /\ ret = TRUE
    /\ m_rpc_callbacks # <<>>
    /\ m_rpc_callbacks[Len(m_rpc_callbacks)] = op.range[1]

\* n and m agree on their first min(|n|, |m|) characters.
AgreeOverShorter(n, m) ==
    \A i \in 1..Min(Len(n), Len(m)) : n[i] = m[i]

\* C13 as stated: a record with a non-empty name matches the inbound method
\* exactly when the two agree over the shorter of their lengths, so a handler
\* is called exactly when the registry holds such a record.
C13_MatchOverShorterLength ==
    [][(op'.name = "Process_Json_Response" /\ op'.data.containsMethod) =>
          (invoked' # <<>> <=>
              \E i \in 1..Len(m_rpc_callbacks) :
                  /\ m_rpc_callbacks[i].name # <<>>
                  /\ AgreeOverShorter(m_rpc_callbacks[i].name, op'.data.method))]_vars

\* C13 as amended: a record with a non-empty name N matches the inbound method
\* M exactly when M starts with N (the comparison runs over the length of N):
\* both scans accept exactly those pairs, a handler is called exactly when
\* the registry holds a record whose name is such a prefix, and the record
\* called is one of them.  A name longer than the method never matches.
C13_MatchIsPrefixOfMethod ==
    [][(op'.name = "Process_Json_Response" /\ op'.data.containsMethod) =>
          /\ \A i \in 1..Len(m_rpc_callbacks) :
                 LET N == m_rpc_callbacks[i].name
                     M == op'.data.method
                 IN  /\ MatchesName(N, M) <=> (N # <<>> /\ IsPrefixOf(N, M))
                     /\ SkipsName(N, M) <=> ~(N # <<>> /\ IsPrefixOf(N, M))
          /\ invoked' # <<>> <=> Candidates(m_rpc_callbacks, op'.data.method) # {}
          /\ invoked' # <<>> =>
                 /\ invoked'[1].rpc.name # <<>>
                 /\ IsPrefixOf(invoked'[1].rpc.name, op'.data.method)
                 /\ Len(invoked'[1].rpc.name) <= Len(op'.data.method)]_vars

\* C13 witness: the record named "a" was matched by a request for the longer
\* method "ab", in a registry whose only record is that one.
C13_Witness ==
    /\ op.name = "Process_Json_Response"
    /\ op.data.containsMethod
    /\ op.data.method = <<"a","b">>
    /\ Len(invoked) = 1
    /\ invoked[1].rpc.name = <<"a">>
    /\ invoked[1].reenter = "none"
    /\ Len(m_rpc_callbacks) = 1

\* C14: a successful RPC_Subscribe appends and keeps the insertion order.
\* After a single or batch call that returned true the registry is the old
\* registry followed by the records given, in their order (for a single
\* call, the one record): no record already there is moved, replaced or
\* removed, and a record whose name is already registered is added like any
\* other.  The same holds for the RPC_Subscribe a handler calls during a
\* dispatch.
C14_SubscribeAppendsInOrder ==
    [][/\ (op'.name \in {"RPC_Subscribe", "RPC_Subscribe_Range"} /\ ret' = TRUE) =>
            /\ m_rpc_callbacks' = m_rpc_callbacks \o op'.range
            /\ \A i \in 1..Len(m_rpc_callbacks) :
                   m_rpc_callbacks'[i] = m_rpc_callbacks[i]
            /\ \A j \in 1..Len(op'.range) :
                   m_rpc_callbacks'[Len(m_rpc_callbacks) + j] = op'.range[j]
       /\ (op'.name = "RPC_Subscribe" /\ ret' = TRUE) => Len(op'.range) = 1
       /\ (/\ op'.name = "Process_Json_Response"
           /\ CallsOf(calls', "subscribe") # <<>>) =>
            m_rpc_callbacks' = Append(m_rpc_callbacks, invoked'[1].rpc)]_vars

\* C14 witness: a batch of one record whose name is that of the record already
\* registered was accepted and stands behind it.
C14_Witness ==
    /\ op.name = "RPC_Subscribe_Range"
    /\ ret = TRUE
    /\ Len(op.range) = 1
    /\ Len(m_rpc_callbacks) = 2
    /\ m_rpc_callbacks[2] = op.range[1]
    /\ m_rpc_callbacks[1].name = m_rpc_callbacks[2].name
    /\ m_rpc_callbacks[1].response_size # m_rpc_callbacks[2].response_size

\* C15 as stated: a step of Process_Json_Response never changes the registry
\* and never has a subscribe or unsubscribe call made.
C15_DispatchLeavesRegistryAlone ==
    [][op'.name = "Process_Json_Response" =>
          /\ m_rpc_callbacks' = m_rpc_callbacks
          /\ CallsOf(calls', "subscribe") = <<>>
          /\ CallsOf(calls', "unsubscribe") = <<>>]_vars

\* C15 as amended: a dispatch depends on the registry and the request alone,
\* and changes the registry only through the handler it calls.  When no
\* handler is called, or the handler called does not register or unregister,
\* the registry is unchanged and no subscribe or unsubscribe call is made;
\* a handler that calls RPC_Subscribe or RPC_Unsubscribe has exactly that
\* operation's effect.  The handler called is that of the earliest record
\* whose non-empty name is a prefix of the method, and the publish call, made
\* exactly when the handler's output is neither empty nor overflowed, carries
\* that output on the response topic for the request id of the inbound topic:
\* none of this refers to anything but the registry, the request and the
\* handler's output.
C15_DispatchDependsOnRegistryOnly ==
    [][op'.name = "Process_Json_Response" =>
          LET cand == IF op'.data.containsMethod
                      THEN Candidates(m_rpc_callbacks, op'.data.method) ELSE {}
              sent == CallsOf(calls', "send_json")
          IN  /\ cand = {} =>
                     /\ invoked' = <<>>
                     /\ calls' = <<>>
                     /\ m_rpc_callbacks' = m_rpc_callbacks
              /\ cand # {} =>
                     /\ Len(invoked') = 1
                     /\ invoked'[1].index = CHOOSE i \in cand : \A j \in cand : i <= j
                     /\ invoked'[1].rpc = m_rpc_callbacks[invoked'[1].index]
                     /\ invoked'[1].param_null = ~op'.data.containsParams
                     /\ invoked'[1].reenter = "none" =>
                            /\ m_rpc_callbacks' = m_rpc_callbacks
                            /\ calls' = sent
                     /\ invoked'[1].reenter = "RPC_Subscribe" =>
                            /\ m_rpc_callbacks' \in
                                   {m_rpc_callbacks,
                                    Append(m_rpc_callbacks, invoked'[1].rpc)}
                            /\ CallsOf(calls', "unsubscribe") = <<>>
                     /\ invoked'[1].reenter = "RPC_Unsubscribe" =>
                            /\ m_rpc_callbacks' = <<>>
                            /\ Len(CallsOf(calls', "unsubscribe")) = 1
                            /\ CallsOf(calls', "subscribe") = <<>>
                     /\ Len(sent) =
                            (IF /\ invoked'[1].json_buffer.pairs # <<>>
                                /\ ~invoked'[1].json_buffer.overflowed
                             THEN 1 ELSE 0)
                     /\ \A k \in 1..Len(sent) :
                            /\ sent[k].doc = invoked'[1].json_buffer
                            /\ sent[k].topic =
                                   <<"v","1","/","d","e","v","i","c","e","s","/",
                                     "m","e","/","r","p","c","/",
                                     "r","e","s","p","o","n","s","e","/">>
                                   \o RequestIdDigits(op'.topic)]_vars

\* C15 witness: a dispatch whose publish call the collaborator refused has
\* left the two registered records as they were.
C15_Witness ==
    /\ op.name = "Process_Json_Response"
    /\ Len(invoked) = 1
    /\ invoked[1].reenter = "none"
    /\ Len(calls) = 1
    /\ calls[1].fn = "send_json"
    /\ ~calls[1].result
    /\ Len(m_rpc_callbacks) = 2

\* C16: when the size computed for the response topic does not hold the
\* formatted topic (the computation failed), no publish call is made; so
\* every publish call carries the whole response topic,
\* "v1/devices/me/rpc/response/" followed by the request id digits, never an
\* empty or truncated one.
C16_NoPublishWithShortTopic ==
    op.name = "Process_Json_Response" =>
        \A i \in 1..Len(calls) :
            calls[i].fn = "send_json" =>
                calls[i].topic =
                    <<"v","1","/","d","e","v","i","c","e","s","/","m","e","/","r","p","c","/",
                      "r","e","s","p","o","n","s","e","/">> \o RequestIdDigits(op.topic)

\* C17: a request whose method matches a record but that carries no
\* parameters is not dropped.  The matched handler is called exactly once,
\* with a null parameter value (a debug build prints one line saying so), and
\* its output is treated as for any request: published, once and whole, on
\* the response topic when it is neither empty nor overflowed, and not
\* published otherwise.
C17_MissingParamsStillDispatched ==
    [][(/\ op'.name = "Process_Json_Response"
        /\ op'.data.containsMethod
        /\ ~op'.data.containsParams
        /\ Candidates(m_rpc_callbacks, op'.data.method) # {}) =>
          LET sent == CallsOf(calls', "send_json")
          IN  /\ Len(invoked') = 1
              /\ invoked'[1].param_null
              /\ invoked'[1].index \in Candidates(m_rpc_callbacks, op'.data.method)
              /\ Len(LogsOf(logs', "NO_RPC_PARAMS_PASSED")) =
                     (IF THINGSBOARD_ENABLE_DEBUG THEN 1 ELSE 0)
              /\ IF /\ invoked'[1].json_buffer.pairs # <<>>
                    /\ ~invoked'[1].json_buffer.overflowed
                 THEN /\ Len(sent) = 1
                      /\ sent[1].doc = invoked'[1].json_buffer
                      /\ sent[1].size = Len(invoked'[1].json_buffer.pairs)
                      /\ sent[1].topic =
                             <<"v","1","/","d","e","v","i","c","e","s","/",
                               "m","e","/","r","p","c","/",
                               "r","e","s","p","o","n","s","e","/">>
                             \o RequestIdDigits(op'.topic)
                 ELSE sent = <<>>]_vars

\* C17 witness: a request for "a" without parameters had the handler of
\* record "a" called with a null parameter, and its response was published.
C17_Witness ==
    /\ op.name = "Process_Json_Response"
    /\ op.data.containsMethod
    /\ ~op.data.containsParams
    /\ op.data.method = <<"a">>
    /\ Len(invoked) = 1
    /\ invoked[1].param_null
    /\ invoked[1].rpc.name = <<"a">>
    /\ Len(CallsOf(calls, "send_json")) = 1
    /\ CallsOf(calls, "send_json")[1].result

\* C18: from an RPC_Unsubscribe, whatever it returned, until the next
\* RPC_Subscribe that returns true, the registry is empty: a request
\* delivered in between calls no handler and has nothing published (no
\* collaborator call at all), and a Resubscribe_Topic in between makes no
\* subscribe call and returns true.
C18_NothingDispatchedAfterUnsubscribe ==
    [][unsubscribed =>
          /\ m_rpc_callbacks = <<>>
          /\ op'.name = "Process_Json_Response" =>
                 /\ invoked' = <<>>
                 /\ calls' = <<>>
                 /\ m_rpc_callbacks' = <<>>
          /\ op'.name = "Resubscribe_Topic" =>
                 /\ calls' = <<>>
                 /\ ret' = TRUE
                 /\ m_rpc_callbacks' = <<>>]_vars

\* C18 witness: after an RPC_Unsubscribe, and before any RPC_Subscribe that
\* returned true, a request for "a" was delivered; no handler was called
\* and nothing was published.
C18_Witness ==
    /\ unsubscribed
    /\ op.name = "Process_Json_Response"
    /\ op.data.containsMethod
    /\ op.data.method = <<"a">>
    /\ invoked = <<>>
    /\ calls = <<>>

\* C19: a dispatch whose handler called RPC_Subscribe or RPC_Unsubscribe on
\* the same object completes with the record matched before the handler ran.
\* The publish decision is the usual one (one publish of the handler's output
\* when it is neither empty nor overflowed, none otherwise), and the budget
\* printed on overflow is that of the matched record (MaxRPC in static mode),
\* never a value read from a record the handler removed or moved.
C19_ReentrantDispatchUsesMatchedRecord ==
    (/\ op.name = "Process_Json_Response"
     /\ Len(invoked) = 1
     /\ invoked[1].reenter # "none")
    => LET sent     == CallsOf(calls, "send_json")
           overflow == LogsOf(logs, "RPC_RESPONSE_OVERFLOWED")
           output   == invoked[1].json_buffer
       IN  /\ Len(sent) = (IF output.pairs # <<>> /\ ~output.overflowed THEN 1 ELSE 0)
           /\ \A k \in 1..Len(sent) : sent[k].doc = output
           /\ Len(overflow) = (IF output.pairs # <<>> /\ output.overflowed THEN 1 ELSE 0)
           /\ \A k \in 1..Len(overflow) :
                  overflow[k].arg = (IF THINGSBOARD_ENABLE_DYNAMIC
                                     THEN invoked[1].rpc.response_size ELSE MaxRPC)

=============================================================================
